---- MODULE Spec2Model ----
(***************************************************************************)
(* QuickDesk help desk: the ticket controller (ticketController.js), the   *)
(* authentication guard (authMiddleware.js) and the user, registration and *)
(* category controllers behind the routes of app.js.                       *)
(*                                                                         *)
(* The database is the three collections users, categories and tickets.   *)
(* Every request handler is one action over them; the handlers that load a *)
(* document, change it in memory and save it are also split at their       *)
(* awaits (SpecConc) to follow overlapping requests.                       *)
(***************************************************************************)
EXTENDS Integers, Sequences, FiniteSets, TLC

\* ------------------------------------------------------------------ bounds
MaxTickets == 2       \* tickets the collection may hold
MaxHandled == 1       \* tickets created where the requests go to one ticket at a time
MaxComments == 2      \* comments kept on one ticket
MaxReqs == 2          \* requests that overlap in SpecConc

\* ------------------------------------------------------------- value sets
UserIds == {"eu", "ag", "ad"}
\* the id of the account a registration or createUser adds
NewUserIds == {"nu"}
AccountIds == UserIds \cup NewUserIds
Roles == {"end-user", "support-agent", "admin"}
NoUser == "no-user"
NoToken == "no-token"
BadToken == "bad-token"
\* a user id used as a token stands for a signed, unexpired token whose
\* payload is that id (generateToken(user._id))
Tokens == UserIds \cup {NoToken, BadToken}
\* a token whose signature is good and whose exp has passed
ExpiredToken == "expired-token"

TicketIds == 1..MaxTickets
NoTicket == [none |-> TRUE]
Null == "null"
CategoryIds == {"c1", "c2"}
NoCategory == [none |-> TRUE]
Statuses == {"Open", "In Progress", "Resolved", "Closed"}

\* texts are sequences of characters; SP is a blank
SP == " "
Absent == "absent"          \* an id or flag the request did not send
BadId == "bad-id"           \* an id that is not the text of an ObjectId
UnknownId == "unknown-id"   \* the text of an ObjectId that no document has
NoText == <<"undefined">>   \* a text the request did not send
CommentTexts == {<<"o", "k">>, <<SP, "o", SP>>}
BlankTexts == {NoText, <<>>, <<SP, SP>>}

VARIABLES
    users,        \* User collection: id -> role, NoUser when there is no such document
    categories,   \* Category collection: id -> document or NoCategory
    tickets,      \* Ticket collection: id -> document or NoTicket
    response,     \* the response to the last request
    mail,         \* recipients of the sendEmail call of the last request
    trail,        \* the last two requests when both were votes that succeeded,
                  \* each with the votes it found on its ticket
    reqs,         \* requests in flight between their load and their save (SpecConc)
    base,         \* the tickets as they were when the requests in flight began
    transport     \* TRUE while the SMTP transport accepts the mail handed to it

vars == <<users, categories, tickets, response, mail, trail, reqs, base, transport>>

\* ---------------------------------------------------------------- helpers
\* MongooseArray.includes: membership by id
Includes(s, u) == \E i \in DOMAIN s : s[i] = u

\* array.filter(userId => userId.toString() !== req.user._id.toString())
Without(s, u) == SelectSeq(s, LAMBDA x : x # u)

Range(s) == {s[i] : i \in DOMAIN s}

IsWhite(c) == c = SP

\* String.prototype.trim
RECURSIVE TrimLeft(_)
TrimLeft(s) == IF s # <<>> /\ IsWhite(Head(s)) THEN TrimLeft(Tail(s)) ELSE s

RECURSIVE TrimRight(_)
TrimRight(s) ==
    IF s # <<>> /\ IsWhite(s[Len(s)]) THEN TrimRight(SubSeq(s, 1, Len(s) - 1)) ELSE s

Trim(s) == TrimRight(TrimLeft(s))

\* JavaScript truthiness of a body field: undefined and "" are falsy
Falsy(x) == x = NoText \/ x = <<>>

ProtectSkipsLookup(tok) == IF tok \in AccountIds THEN tok ELSE NoUser

\* protect: the user the request acts as, or NoUser (401)
Protect(tok) == IF tok \in AccountIds /\ users[tok] # NoUser THEN tok ELSE NoUser

\* the token is the unexpired token of a user the collection holds
Authenticated(tok) == tok \in AccountIds /\ users[tok] # NoUser

Exists(t) == t \in TicketIds /\ tickets[t] # NoTicket

ExistingTickets == {t \in TicketIds : tickets[t] # NoTicket}

\* the ids a request is sent to: those of the tickets and one that names none
Targets == {t \in TicketIds : t <= Cardinality(ExistingTickets) + 1}

\* populate(): the referenced user document, or Null when it is gone
Populate(u) == IF u \in AccountIds /\ users[u] # NoUser THEN u ELSE Null

NoVotes == [up |-> {}, down |-> {}]

NoEntry == [op |-> "none", tok |-> NoToken, tid |-> 0, pre |-> NoVotes]

NoTrail == <<NoEntry, NoEntry>>

VotesOf(tk) == [up |-> Range(tk.upvotes), down |-> Range(tk.downvotes)]

Resp(op, tok, t, status, data) ==
    [op |-> op, tok |-> tok, tid |-> t, status |-> status, data |-> data]

\* ------------------------------------------------------------------- Init
InitUsers == [u \in AccountIds |->
                 CASE u = "eu" -> "end-user"
                   [] u = "ag" -> "support-agent"
                   [] u = "ad" -> "admin"
                   [] OTHER -> NoUser]

InitCategories ==
    [c \in CategoryIds |-> IF c = "c1" THEN [name |-> <<"H", "w">>] ELSE NoCategory]

Init ==
    /\ users = InitUsers
    /\ categories = InitCategories
    /\ tickets = [t \in TicketIds |-> NoTicket]
    /\ response = Resp("none", NoToken, 0, 0, Null)
    /\ mail = {}
    /\ trail = NoTrail
    /\ reqs = [i \in 1..MaxReqs |-> [phase |-> "idle"]]
    /\ base = [t \in TicketIds |-> NoTicket]
    /\ transport = TRUE

\* ----------------------------------------------------------- createTicket
FreshTicketId == CHOOSE t \in TicketIds :
                    tickets[t] = NoTicket /\ \A s \in TicketIds : s < t => tickets[s] # NoTicket

NewTicketSelfAssigned(subject, description, category, creator, attachments) ==
    [subject |-> subject, description |-> description, category |-> category,
     createdBy |-> creator, assignedTo |-> creator, status |-> "Open",
     comments |-> <<>>, attachments |-> attachments,
     upvotes |-> <<>>, downvotes |-> <<>>]

\* Ticket.create({ subject, description, category, createdBy, attachments })
\* with the defaults of the schema
NewTicket(subject, description, category, creator, attachments) ==
    [subject |-> subject, description |-> description, category |-> category,
     createdBy |-> creator, assignedTo |-> Null, status |-> "Open",
     comments |-> <<>>, attachments |-> attachments,
     upvotes |-> <<>>, downvotes |-> <<>>]

StaffEmails == {u \in AccountIds : users[u] \in {"admin", "support-agent"}}

SendEmailRejectsOnFailure(accepted) == ~accepted

\* sendEmail: does the awaited call reject?  transporter.sendMail sits in a
\* try whose catch only logs, so the call resolves whether or not the
\* transport accepted the mail
SendEmailRejects(accepted) == FALSE

(* POST /api/tickets.  The body of the handler is the callback handed to    *)
(* upload, an async function nobody awaits: what it throws (the CastError   *)
(* of Category.findById for an id that is no ObjectId) reaches neither      *)
(* asyncHandler nor errorHandler, and the request gets no answer (status 0) *)
CreateTicket(tok, subject, description, category, attachments) ==
    LET actor == Protect(tok)
        body == [category |-> category]
    IN
    /\ \E t \in TicketIds : tickets[t] = NoTicket
    /\ UNCHANGED <<users, categories, reqs, base, transport>>
    /\ trail' = NoTrail
    /\ IF actor = NoUser
       THEN /\ response' = Resp("createTicket", tok, 0, 401, body)
            /\ UNCHANGED tickets /\ mail' = {}
       ELSE IF Falsy(subject) \/ Falsy(description) \/ category = Absent
       THEN /\ response' = Resp("createTicket", tok, 0, 400, body)
            /\ UNCHANGED tickets /\ mail' = {}
       ELSE IF category = BadId
       THEN /\ response' = Resp("createTicket", tok, 0, 0, body)
            /\ UNCHANGED tickets /\ mail' = {}
       ELSE IF categories[category] = NoCategory
       THEN /\ response' = Resp("createTicket", tok, 0, 400, body)
            /\ UNCHANGED tickets /\ mail' = {}
       ELSE /\ tickets' = [tickets EXCEPT ![FreshTicketId] =
                              NewTicket(subject, description, category, actor, attachments)]
            /\ mail' = StaffEmails
            /\ response' = Resp("createTicket", tok, FreshTicketId,
                                IF StaffEmails # {} /\ SendEmailRejects(transport)
                                THEN 0 ELSE 201,
                                body)

\* ------------------------------------------------- Mongoose document save
(* A loaded document that a handler changes in memory is saved by its      *)
(* changes alone: a path the handler pushed to goes out as $push, a path   *)
(* it assigned goes out as $set of the whole array together with the       *)
(* condition that the stored version (__v) is the loaded one.  Every array *)
(* change increments __v, so "the stored version moved since the load" is  *)
(* kept as the flag stale of the request instead of the counter itself.    *)
NoPush == [upvotes |-> <<>>, downvotes |-> <<>>, comments |-> <<>>]

Change(doc, set, push) == [doc |-> doc, set |-> set, push |-> push]

\* save() succeeds when the document is still there and no $set meets a moved version
SaveOk(cur, m, stale) == cur # NoTicket /\ (m.set = {} \/ ~stale)

SavedSetsComments(cur, m) ==
    [cur EXCEPT
        !.upvotes = IF "upvotes" \in m.set THEN m.doc.upvotes ELSE @ \o m.push.upvotes,
        !.downvotes = IF "downvotes" \in m.set THEN m.doc.downvotes ELSE @ \o m.push.downvotes,
        !.comments = m.push.comments]

\* the stored document after the save
Saved(cur, m) ==
    [cur EXCEPT
        !.upvotes = IF "upvotes" \in m.set THEN m.doc.upvotes ELSE @ \o m.push.upvotes,
        !.downvotes = IF "downvotes" \in m.set THEN m.doc.downvotes ELSE @ \o m.push.downvotes,
        !.comments = @ \o m.push.comments]

\* ------------------------------------------------ upvoteTicket / downvoteTicket
UpvoteDocKeepsDownvote(doc, u) ==
    LET hadUp == Includes(doc.upvotes, u) IN
    Change([doc EXCEPT !.upvotes = IF hadUp THEN Without(@, u) ELSE Append(@, u)],
           IF hadUp THEN {"upvotes"} ELSE {},
           [NoPush EXCEPT !.upvotes = IF hadUp THEN <<>> ELSE <<u>>])

UpvoteDocNoToggle(doc, u) ==
    LET hadDown == Includes(doc.downvotes, u)
        hadUp == Includes(doc.upvotes, u)
    IN  Change([doc EXCEPT !.downvotes = Without(@, u),
                           !.upvotes = IF hadUp THEN @ ELSE Append(@, u)],
               IF hadDown THEN {"downvotes"} ELSE {},
               [NoPush EXCEPT !.upvotes = IF hadUp THEN <<>> ELSE <<u>>])

\* the in-memory changes of upvoteTicket once the ticket is loaded
UpvoteDoc(doc, u) ==
    LET hadDown == Includes(doc.downvotes, u)
        d1 == IF hadDown THEN [doc EXCEPT !.downvotes = Without(@, u)] ELSE doc
        hadUp == Includes(d1.upvotes, u)
        d2 == IF ~hadUp THEN [d1 EXCEPT !.upvotes = Append(@, u)]
                        ELSE [d1 EXCEPT !.upvotes = Without(@, u)]
    IN  Change(d2,
               (IF hadDown THEN {"downvotes"} ELSE {}) \cup (IF hadUp THEN {"upvotes"} ELSE {}),
               [NoPush EXCEPT !.upvotes = IF hadUp THEN <<>> ELSE <<u>>])

\* the in-memory changes of downvoteTicket once the ticket is loaded
DownvoteDoc(doc, u) ==
    LET hadUp == Includes(doc.upvotes, u)
        d1 == IF hadUp THEN [doc EXCEPT !.upvotes = Without(@, u)] ELSE doc
        hadDown == Includes(d1.downvotes, u)
        d2 == IF ~hadDown THEN [d1 EXCEPT !.downvotes = Append(@, u)]
                          ELSE [d1 EXCEPT !.downvotes = Without(@, u)]
    IN  Change(d2,
               (IF hadUp THEN {"upvotes"} ELSE {}) \cup (IF hadDown THEN {"downvotes"} ELSE {}),
               [NoPush EXCEPT !.downvotes = IF hadDown THEN <<>> ELSE <<u>>])

VoteDoc(op, doc, u) == IF op = "upvote" THEN UpvoteDoc(doc, u) ELSE DownvoteDoc(doc, u)

VoteCounts(doc) == [upvotes |-> Len(doc.upvotes), downvotes |-> Len(doc.downvotes)]

IsOwnTicketAdminExempt(tk, actor) == tk.createdBy = actor /\ users[actor] # "admin"

\* ticket.createdBy.toString() === req.user._id.toString()
IsOwnTicket(tk, actor) == tk.createdBy = actor

Entry(op, tok, t) == [op |-> op, tok |-> tok, tid |-> t, pre |-> VotesOf(tickets[t])]

\* the answer of a vote request that found tk under the id: 200 when it goes on to save
VoteStatus(tok, tk) ==
    IF Protect(tok) = NoUser THEN 401
    ELSE IF tk = NoTicket THEN 404
    ELSE IF IsOwnTicket(tk, Protect(tok)) THEN 400
    ELSE 200

\* a whole vote request, its load and its save with nothing in between
Vote(op, tok, t) ==
    LET actor == Protect(tok)
        status == VoteStatus(tok, tickets[t])
    IN  /\ UNCHANGED <<users, categories, reqs, base, transport>>
        /\ mail' = {}
        /\ trail' = IF status = 200 THEN <<Entry(op, tok, t), trail[1]>> ELSE NoTrail
        /\ IF status = 200
           THEN LET m == VoteDoc(op, tickets[t], actor) IN
                /\ tickets' = [tickets EXCEPT ![t] = Saved(@, m)]
                /\ response' = Resp(op, tok, t, 200, VoteCounts(m.doc))
           ELSE /\ UNCHANGED tickets
                /\ response' = Resp(op, tok, t, status, Null)

UpvoteTicket(tok, t) == Vote("upvote", tok, t)

DownvoteTicket(tok, t) == Vote("downvote", tok, t)

\* ------------------------------------------------- specification: voting
\* tickets are created and voted on, one request at a time
NextVote ==
    \/ \E tok \in Tokens :
          /\ Cardinality(ExistingTickets) < MaxHandled
          /\ CreateTicket(tok, <<"P", "c">>, <<"p", "c">>, "c1", <<>>)
    \/ \E tok \in Tokens, t \in Targets : UpvoteTicket(tok, t)
    \/ \E tok \in Tokens, t \in Targets : DownvoteTicket(tok, t)

SpecVote == Init /\ [][NextVote]_vars

\* ------------------------------------------------------------- deleteUser
AuthorizeAnyRole(actor, roles) == users[actor] \in Roles

AuthorizeByIssuedRole(actor, roles) == InitUsers[actor] \in roles

\* authorize(...roles): the role of the acting user is one of the allowed ones
Authorize(actor, roles) == users[actor] \in roles

\* DELETE /api/users/:id (protect, authorize('admin'), deleteUser)
DeleteUser(tok, u) ==
    LET actor == Protect(tok)
        status == IF actor = NoUser THEN 401
                  ELSE IF ~Authorize(actor, {"admin"}) THEN 403
                  ELSE IF users[u] = NoUser THEN 404
                  ELSE IF u = actor THEN 400
                  ELSE 200
    IN  /\ UNCHANGED <<categories, tickets, reqs, base, transport>>
        /\ mail' = {}
        /\ trail' = NoTrail
        /\ users' = IF status = 200 THEN [users EXCEPT ![u] = NoUser] ELSE users
        /\ response' = Resp("deleteUser", tok, 0, status, Null)

\* ------------------------------------------------------------- updateUser
\* PUT /api/users/:id (protect, authorize of the three roles, updateUser);
\* only the role of the body is followed
UpdateUser(tok, u, role) ==
    LET actor == Protect(tok)
        status == IF actor = NoUser THEN 401
                  ELSE IF ~Authorize(actor, Roles) THEN 403
                  ELSE IF u \notin AccountIds \/ users[u] = NoUser THEN 404
                  ELSE IF users[actor] # "admin" /\ actor # u THEN 403
                  \* runValidators: the role is one of the enum
                  ELSE IF users[actor] = "admin" /\ role # Absent /\ role \notin Roles THEN 400
                  ELSE 200
    IN  /\ UNCHANGED <<categories, tickets, reqs, base, transport>>
        /\ mail' = {}
        /\ trail' = NoTrail
        /\ users' = IF status = 200 /\ users[actor] = "admin" /\ role # Absent
                    THEN [users EXCEPT ![u] = role] ELSE users
        /\ response' = Resp("updateUser", tok, 0, status, [user |-> u, role |-> role])

\* ------------------------------------------------- register / createUser
\* role || 'end-user'
RoleOrDefault(role) == IF role = Absent THEN "end-user" ELSE role

(* The answer of the body shared by register and createUser, for a request *)
(* that names the account u by its email: 400 when findOne({ email })      *)
(* finds an account, 400 (ValidationError) when the role is none of the    *)
(* enum, 201 when User.create stores the account.                          *)
NewUserStatus(u, role) ==
    IF users[u] # NoUser THEN 400
    ELSE IF RoleOrDefault(role) \notin Roles THEN 400
    ELSE 201

\* an account is created under an id no account has held: the model does not
\* follow a registration under the email of one of the first users once deleted
Creatable(u) == u \in NewUserIds \/ users[u] # NoUser

\* POST /api/auth/register: no middleware before it, the Authorization header
\* (tok) is never read
Register(tok, u, role) ==
    LET status == NewUserStatus(u, role) IN
    /\ Creatable(u)
    /\ UNCHANGED <<categories, tickets, reqs, base, transport>>
    /\ mail' = {}
    /\ trail' = NoTrail
    /\ users' = IF status = 201 THEN [users EXCEPT ![u] = RoleOrDefault(role)] ELSE users
    /\ response' = Resp("register", tok, 0, status, [user |-> u, role |-> role])

\* POST /api/users (protect, authorize('admin'), createUser)
CreateUser(tok, u, role) ==
    LET actor == Protect(tok)
        status == IF actor = NoUser THEN 401
                  ELSE IF ~Authorize(actor, {"admin"}) THEN 403
                  ELSE NewUserStatus(u, role)
    IN  /\ Creatable(u)
        /\ UNCHANGED <<categories, tickets, reqs, base, transport>>
        /\ mail' = {}
        /\ trail' = NoTrail
        /\ users' = IF status = 201 THEN [users EXCEPT ![u] = RoleOrDefault(role)] ELSE users
        /\ response' = Resp("createUser", tok, 0, status, [user |-> u, role |-> role])

\* ------------------------------------------------ getUsers / getUser / getMe
ExistingUsers == {u \in AccountIds : users[u] # NoUser}

\* a request that reads: the collections stay as they are
Reads(op, tok, t, status, data) ==
    /\ UNCHANGED <<users, categories, tickets, reqs, base, transport>>
    /\ mail' = {}
    /\ trail' = NoTrail
    /\ response' = Resp(op, tok, t, status, data)

\* GET /api/users (protect, authorize('admin'), getUsers)
GetUsers(tok) ==
    LET actor == Protect(tok)
        status == IF actor = NoUser THEN 401
                  ELSE IF ~Authorize(actor, {"admin"}) THEN 403
                  ELSE 200
    IN  Reads("getUsers", tok, 0, status, IF status = 200 THEN ExistingUsers ELSE {})

\* GET /api/users/:id (protect, authorize('admin'), getUser)
GetUser(tok, u) ==
    LET actor == Protect(tok)
        status == IF actor = NoUser THEN 401
                  ELSE IF ~Authorize(actor, {"admin"}) THEN 403
                  ELSE IF u = BadId THEN 404
                  ELSE IF users[u] = NoUser THEN 404
                  ELSE 200
    IN  Reads("getUser", tok, 0, status, [user |-> u])

\* GET /api/auth/me (protect, getMe)
GetMe(tok) ==
    LET actor == Protect(tok) IN
    Reads("getMe", tok, 0, IF actor = NoUser THEN 401 ELSE 200, [user |-> actor])

\* ----------------------------------------------------------- updateTicket
IsStaff(actor) == users[actor] \in {"support-agent", "admin"}

UpdatedFieldsKeepsClosed(tk, actor, status, assignedTo, description, category) ==
    (IF IsStaff(actor) /\ status # Absent /\ status \in Statuses /\ status # tk.status
           /\ tk.status # "Closed"
        THEN {"status"} ELSE {})
    \cup (IF IsStaff(actor) /\ assignedTo # Absent /\ assignedTo # tk.assignedTo
        THEN {"assignedTo"} ELSE {})

UpdatedFieldsCreatorStatus(tk, actor, status, assignedTo, description, category) ==
    (IF (IsStaff(actor) \/ tk.createdBy = actor)
           /\ status # Absent /\ status \in Statuses /\ status # tk.status
        THEN {"status"} ELSE {})
    \cup (IF IsStaff(actor) /\ assignedTo # Absent /\ assignedTo # tk.assignedTo
        THEN {"assignedTo"} ELSE {})
    \cup (IF tk.createdBy = actor /\ ~Falsy(description) /\ description # tk.description
        THEN {"description"} ELSE {})

\* the fields of updatedFields, given that no check refused the request
UpdatedFields(tk, actor, status, assignedTo, description, category) ==
    (IF IsStaff(actor) /\ status # Absent /\ status \in Statuses /\ status # tk.status
        THEN {"status"} ELSE {})
    \cup (IF IsStaff(actor) /\ assignedTo # Absent /\ assignedTo # tk.assignedTo
        THEN {"assignedTo"} ELSE {})
    \cup (IF IsStaff(actor) /\ category # Absent /\ category # tk.category
        THEN {"category"} ELSE {})
    \cup (IF tk.createdBy = actor /\ ~Falsy(description) /\ description # tk.description
        THEN {"description"} ELSE {})

\* req.body of updateTicket
Body(status, assignedTo, description, category) ==
    [status |-> status, assignedTo |-> assignedTo,
     description |-> description, category |-> category]

\* the answer of the lookups of the new assignee and the new category, 0 when
\* both pass: 400 for a user that is missing or no agent/admin and for a
\* missing category, 404 (errorHandler) for the CastError of a malformed id
UpdateRefusal(fields, assignedTo, category) ==
    IF "assignedTo" \in fields /\ assignedTo = BadId THEN 404
    ELSE IF "assignedTo" \in fields /\ (assignedTo \notin AccountIds \/ ~IsStaff(assignedTo))
    THEN 400
    ELSE IF "category" \in fields /\ category = BadId THEN 404
    ELSE IF "category" \in fields /\ (category \notin CategoryIds \/ categories[category] = NoCategory)
    THEN 400
    ELSE 0

\* PUT /api/tickets/:id
UpdateTicket(tok, t, status, assignedTo, description, category) ==
    LET actor == Protect(tok)
        body == Body(status, assignedTo, description, category)
    IN
    /\ UNCHANGED <<users, categories, reqs, base, transport>>
    /\ trail' = NoTrail
    /\ IF actor = NoUser
       THEN /\ response' = Resp("updateTicket", tok, t, 401, body)
            /\ UNCHANGED tickets /\ mail' = {}
       ELSE IF ~Exists(t)
       THEN /\ response' = Resp("updateTicket", tok, t, 404, body)
            /\ UNCHANGED tickets /\ mail' = {}
       ELSE
         LET tk == tickets[t]
             fields == UpdatedFields(tk, actor, status, assignedTo, description, category)
             refusal == UpdateRefusal(fields, assignedTo, category)
             updated == [tk EXCEPT
                            !.status = IF "status" \in fields THEN status ELSE @,
                            !.assignedTo = IF "assignedTo" \in fields THEN assignedTo ELSE @,
                            !.category = IF "category" \in fields THEN category ELSE @,
                            !.description = IF "description" \in fields THEN description ELSE @]
         IN
         IF refusal # 0
         THEN /\ response' = Resp("updateTicket", tok, t, refusal, body)
              /\ UNCHANGED tickets /\ mail' = {}
         ELSE IF tk.createdBy # actor /\ fields = {}
         THEN /\ response' = Resp("updateTicket", tok, t, 403, body)
              /\ UNCHANGED tickets /\ mail' = {}
         ELSE /\ tickets' = [tickets EXCEPT ![t] = updated]
              /\ IF fields = {}
                 THEN /\ mail' = {}
                      /\ response' = Resp("updateTicket", tok, t, 200, body)
                 ELSE IF Populate(updated.createdBy) = Null
                 \* ticket.createdBy.email of a creator that is gone throws
                 THEN /\ mail' = {}
                      /\ response' = Resp("updateTicket", tok, t, 500, body)
                 ELSE /\ mail' = {updated.createdBy}
                                 \cup ({Populate(updated.assignedTo)} \ {Null})
                      /\ response' = Resp("updateTicket", tok, t,
                                          IF SendEmailRejects(transport) THEN 500 ELSE 200,
                                          body)

\* -------------------------------------------------------------- getTicket
\* isCreator || isAssignedAgent || isAdmin, over the populated ticket
CanView(tk, actor) ==
    \/ Populate(tk.createdBy) = actor
    \/ (Populate(tk.assignedTo) # Null /\ Populate(tk.assignedTo) = actor)
    \/ users[actor] = "admin"

\* ticket.createdBy._id of a populated creator that is gone throws (500)
BrokenCreator(tk) == Populate(tk.createdBy) = Null

\* GET /api/tickets/:id
GetTicket(tok, t) ==
    LET actor == Protect(tok)
        status == IF actor = NoUser THEN 401
                  ELSE IF ~Exists(t) THEN 404
                  ELSE IF BrokenCreator(tickets[t]) THEN 500
                  ELSE IF ~CanView(tickets[t], actor) THEN 403
                  ELSE 200
    IN  /\ UNCHANGED <<users, categories, tickets, reqs, base, transport>>
        /\ mail' = {}
        /\ trail' = NoTrail
        /\ response' = Resp("getTicket", tok, t, status,
                            IF status = 200 THEN tickets[t] ELSE NoTicket)

\* ----------------------------------------------------------- deleteTicket
\* DELETE /api/tickets/:id (protect, authorize('admin'), deleteTicket)
DeleteTicket(tok, t) ==
    LET actor == Protect(tok)
        status == IF actor = NoUser THEN 401
                  ELSE IF ~Authorize(actor, {"admin"}) THEN 403
                  ELSE IF ~Exists(t) THEN 404
                  ELSE 200
    IN  /\ UNCHANGED <<users, categories, reqs, base, transport>>
        /\ mail' = {}
        /\ trail' = NoTrail
        /\ tickets' = IF status = 200 THEN [tickets EXCEPT ![t] = NoTicket] ELSE tickets
        /\ response' = Resp("deleteTicket", tok, t, status, Null)

\* ------------------------------------------------------------- addComment
BlankTextEmptyOnly(text) == Falsy(text)

\* !text || text.trim() === ''
BlankText(text) == Falsy(text) \/ Trim(text) = <<>>

NewComment(text, actor) == [text |-> text, commentedBy |-> actor]

\* ticket.comments.push(newComment)
CommentDoc(doc, text, actor) ==
    Change([doc EXCEPT !.comments = Append(@, NewComment(text, actor))], {},
           [NoPush EXCEPT !.comments = <<NewComment(text, actor)>>])

\* the creator and the assignee, but not the commenter
CommentRecipients(tk, actor) ==
    ({Populate(tk.createdBy), Populate(tk.assignedTo)} \ {Null}) \ {actor}

\* the answer of addComment that found tk under the id: 200 when it goes on to save
CommentStatus(tok, tk, text) ==
    IF Protect(tok) = NoUser THEN 401
    ELSE IF BlankText(text) THEN 400
    ELSE IF tk = NoTicket THEN 404
    ELSE IF BrokenCreator(tk) THEN 500
    ELSE IF ~CanView(tk, Protect(tok)) THEN 403
    ELSE 200

\* POST /api/tickets/:id/comment
AddComment(tok, t, text) ==
    LET actor == Protect(tok)
        status == CommentStatus(tok, tickets[t], text)
    IN  /\ Exists(t) => Len(tickets[t].comments) < MaxComments
        /\ UNCHANGED <<users, categories, reqs, base, transport>>
        /\ trail' = NoTrail
        /\ IF status = 200
           THEN LET m == CommentDoc(tickets[t], text, actor) IN
                /\ tickets' = [tickets EXCEPT ![t] = Saved(@, m)]
                /\ mail' = CommentRecipients(tickets[t], actor)
                /\ response' = Resp("addComment", tok, t,
                                    IF CommentRecipients(tickets[t], actor) # {}
                                          /\ SendEmailRejects(transport)
                                    THEN 500 ELSE 200,
                                    [text |-> text, comments |-> Saved(tickets[t], m).comments])
           ELSE /\ UNCHANGED tickets
                /\ mail' = {}
                /\ response' = Resp("addComment", tok, t, status,
                                    [text |-> text, comments |-> <<>>])

\* ------------------------------------- overlapping votes and comments
(* A vote or a comment awaits Ticket.findById, changes the loaded document *)
(* in memory and awaits ticket.save(); requests of other callers run       *)
(* between the two.                                                        *)
Request(op, tok, t, text) == [op |-> op, tok |-> tok, tid |-> t, text |-> text]

RequestStatus(r, tk) ==
    IF r.op = "addComment" THEN CommentStatus(r.tok, tk, r.text) ELSE VoteStatus(r.tok, tk)

RequestDoc(r, tk) ==
    IF r.op = "addComment" THEN CommentDoc(tk, r.text, Protect(r.tok))
    ELSE VoteDoc(r.op, tk, Protect(r.tok))

Busy == {i \in DOMAIN reqs : reqs[i].phase # "idle"}

\* no request in flight or answered carries the token
OtherCallers(tok) == \A j \in Busy : reqs[j].req.tok # tok

\* up to the end of the in-memory changes: findById, the checks, the changes
LoadTicket(i, r) ==
    LET status == RequestStatus(r, tickets[r.tid]) IN
    /\ reqs[i].phase = "idle"
    /\ \A j \in 1..(i - 1) : reqs[j].phase # "idle"
    /\ reqs' = [reqs EXCEPT ![i] =
                  IF status = 200
                  THEN [phase |-> "loaded", req |-> r, status |-> 0, stale |-> FALSE,
                        m |-> RequestDoc(r, tickets[r.tid])]
                  ELSE [phase |-> "done", req |-> r, status |-> status]]
    /\ UNCHANGED <<users, categories, tickets, response, mail, trail, base, transport>>

\* await ticket.save(): a refused save throws and the request answers 500
SaveTicket(i) ==
    /\ reqs[i].phase = "loaded"
    /\ LET t == reqs[i].req.tid
           ok == SaveOk(tickets[t], reqs[i].m, reqs[i].stale)
       IN  /\ tickets' = IF ok THEN [tickets EXCEPT ![t] = Saved(@, reqs[i].m)] ELSE tickets
           /\ reqs' = [j \in DOMAIN reqs |->
                         IF j = i
                         THEN [phase |-> "done", req |-> reqs[i].req,
                               status |-> IF ok THEN 200 ELSE 500]
                         ELSE IF ok /\ reqs[j].phase = "loaded" /\ reqs[j].req.tid = t
                         THEN [reqs[j] EXCEPT !.stale = TRUE]
                         ELSE reqs[j]]
    /\ UNCHANGED <<users, categories, response, mail, trail, base, transport>>

\* ------------------------------------------ specification: concurrency
\* a ticket of the end-user, assigned to the agent, with the votes some
\* sequence of complete vote requests of the agent and the admin leaves
StartVotes ==
    {v \in [upvotes : {<<>>, <<"ag">>, <<"ad">>, <<"ag", "ad">>},
            downvotes : {<<>>, <<"ag">>, <<"ad">>, <<"ad", "ag">>}] :
        Range(v.upvotes) \cap Range(v.downvotes) = {}}

StartTicket(v) ==
    [NewTicket(<<"P", "c">>, <<"p", "c">>, "c1", "eu", <<>>) EXCEPT
        !.assignedTo = "ag", !.upvotes = v.upvotes, !.downvotes = v.downvotes]

InitConc ==
    /\ users = InitUsers
    /\ categories = InitCategories
    /\ \E v \in StartVotes :
          tickets = [t \in TicketIds |-> IF t = 1 THEN StartTicket(v) ELSE NoTicket]
    /\ base = tickets
    /\ response = Resp("none", NoToken, 0, 0, Null)
    /\ mail = {}
    /\ trail = NoTrail
    /\ reqs = [i \in 1..MaxReqs |-> [phase |-> "idle"]]
    /\ transport = TRUE

\* requests of different callers
NextConc ==
    \/ \E i \in 1..MaxReqs, tok \in UserIds, op \in {"upvote", "downvote"} :
          OtherCallers(tok) /\ LoadTicket(i, Request(op, tok, 1, NoText))
    \/ \E i \in 1..MaxReqs, tok \in UserIds :
          OtherCallers(tok) /\ LoadTicket(i, Request("addComment", tok, 1, <<"o", "k">>))
    \/ \E i \in 1..MaxReqs : SaveTicket(i)

SpecConc == InitConc /\ [][NextConc]_vars

\* ------------------------------- specification: one caller, several requests
\* vote requests of the agent and the admin, a caller free to send another
\* before the first is answered
NextSame ==
    \/ \E i \in 1..MaxReqs, tok \in {"ag", "ad"}, op \in {"upvote", "downvote"} :
          LoadTicket(i, Request(op, tok, 1, NoText))
    \/ \E i \in 1..MaxReqs : SaveTicket(i)

SpecSame == InitConc /\ [][NextSame]_vars

\* ------------------------------------------------ specification: viewing
\* tickets are created, assigned and read, and users deleted, one request at a time
NextView ==
    \/ \E tok \in UserIds :
          /\ Cardinality(ExistingTickets) < MaxHandled
          /\ CreateTicket(tok, <<"P", "c">>, <<"p", "c">>, "c1", <<>>)
    \/ \E tok \in UserIds, t \in Targets, a \in UserIds :
          UpdateTicket(tok, t, Absent, a, NoText, Absent)
    \/ \E tok \in Tokens, t \in Targets : GetTicket(tok, t)
    \/ \E tok \in UserIds, u \in UserIds : DeleteUser(tok, u)

SpecView == Init /\ [][NextView]_vars

\* --------------------------------------------- specification: commenting
\* one ticket is created, assigned and commented on, and users deleted, one
\* request at a time; no request here reads or writes a ticket other than its own
NextComment ==
    \/ \E tok \in UserIds :
          /\ ExistingTickets = {}
          /\ CreateTicket(tok, <<"P", "c">>, <<"p", "c">>, "c1", <<>>)
    \/ \E tok \in {"eu", "ag"}, t \in Targets, a \in UserIds :
          UpdateTicket(tok, t, Absent, a, NoText, Absent)
    \/ \E tok \in UserIds, t \in Targets, text \in CommentTexts \cup BlankTexts :
          AddComment(tok, t, text)
    \/ \E t \in Targets : AddComment(NoToken, t, <<"o", "k">>)
    \/ \E tok \in {"eu", "ad"} : DeleteUser(tok, "eu")

SpecComment == Init /\ [][NextComment]_vars

\* ------------------------------------------------------------- getTickets
DefaultLimit == 10

Lower(c) == CASE c = "P" -> "p" [] c = "H" -> "h" [] OTHER -> c

\* { $regex: search, $options: 'i' } for a search made of plain characters:
\* the text contains the search, letter case ignored
RegexMatch(search, text) ==
    \E i \in 0..(Len(text) - Len(search)) :
        \A j \in 1..Len(search) : Lower(text[i + j]) = Lower(search[j])

\* req.query: the keys this model follows; Absent, NoText and 0 say "not sent"
Query(createdBy, my_tickets, search, sort, page, limit) ==
    [createdBy |-> createdBy, my_tickets |-> my_tickets, search |-> search,
     sort |-> sort, page |-> page, limit |-> limit]

ConditionsFilterWins(actor, q, strict) ==
    [createdBy |-> IF q.createdBy # Absent THEN q.createdBy
                   ELSE IF users[actor] = "end-user" THEN actor ELSE Absent,
     assignedTo |-> IF users[actor] = "support-agent" /\ q.my_tickets = "true"
                    THEN actor ELSE Absent,
     my_tickets |-> IF strict THEN Absent ELSE q.my_tickets,
     search |-> q.search]

ConditionsScopeOnly(actor, q, strict) ==
    [createdBy |-> IF users[actor] = "end-user" THEN actor ELSE Absent,
     assignedTo |-> IF users[actor] = "support-agent" /\ q.my_tickets = "true"
                    THEN actor ELSE Absent,
     my_tickets |-> IF strict THEN Absent ELSE q.my_tickets,
     search |-> q.search]

(* query._conditions: Ticket.find(queryStr) takes every key of the query    *)
(* but select, sort, page, limit and search as a field equality (a key the  *)
(* schema does not know, such as my_tickets, is dropped under strictQuery   *)
(* and kept otherwise); where(path).equals(id) then replaces the condition  *)
(* on that path; or([...]) adds the search.                                 *)
Conditions(actor, q, strict) ==
    [createdBy |-> IF users[actor] = "end-user" THEN actor ELSE q.createdBy,
     assignedTo |-> IF users[actor] = "support-agent" /\ q.my_tickets = "true"
                    THEN actor ELSE Absent,
     my_tickets |-> IF strict THEN Absent ELSE q.my_tickets,
     search |-> q.search]

\* the stored ticket satisfies the conditions; no ticket has a field my_tickets
Matches(tk, c) ==
    /\ c.createdBy # Absent => tk.createdBy = c.createdBy
    /\ c.assignedTo # Absent => tk.assignedTo = c.assignedTo
    /\ c.my_tickets = Absent
    /\ c.search # NoText =>
          RegexMatch(c.search, tk.subject) \/ RegexMatch(c.search, tk.description)

Matching(c) == {t \in ExistingTickets : Matches(tickets[t], c)}

\* tickets are created in the order of their ids: sort('-createdAt') unless
\* the query asks for 'createdAt'
RECURSIVE Ascending(_)
Ascending(S) ==
    IF S = {} THEN <<>>
    ELSE LET m == CHOOSE x \in S : \A y \in S : x <= y IN <<m>> \o Ascending(S \ {m})

Reverse(s) == [i \in 1..Len(s) |-> s[Len(s) + 1 - i]]

Sorted(S, sort) == IF sort = "createdAt" THEN Ascending(S) ELSE Reverse(Ascending(S))

\* parseInt(req.query.page, 10) || 1 and parseInt(req.query.limit, 10) || 10
PageOf(q) == IF q.page = 0 THEN 1 ELSE q.page

LimitOf(q) == IF q.limit = 0 THEN DefaultLimit ELSE q.limit

Min(a, b) == IF a < b THEN a ELSE b

\* skip(startIndex).limit(limit)
PageSlice(s, q) ==
    LET startIndex == (PageOf(q) - 1) * LimitOf(q) IN
    SubSeq(s, startIndex + 1, Min(Len(s), startIndex + LimitOf(q)))

\* the ids of the tickets of the page and the total of the matching tickets
ListTickets(actor, q, strict) ==
    LET c == Conditions(actor, q, strict) IN
    [data |-> PageSlice(Sorted(Matching(c), q.sort), q),
     total |-> Cardinality(Matching(c))]

\* GET /api/tickets
GetTickets(tok, q, strict) ==
    LET actor == Protect(tok) IN
    /\ UNCHANGED <<users, categories, tickets, reqs, base, transport>>
    /\ mail' = {}
    /\ trail' = NoTrail
    /\ response' =
          IF actor = NoUser
          THEN Resp("getTickets", tok, 0, 401, [q |-> q, strict |-> strict, data |-> <<>>, total |-> 0])
          ELSE LET r == ListTickets(actor, q, strict) IN
               Resp("getTickets", tok, 0, 200,
                    [q |-> q, strict |-> strict, data |-> r.data, total |-> r.total])

\* ------------------------------------------------ specification: listing
FilterQueries ==
    {Query(c, m, s, Absent, 0, 0) :
        c \in {Absent, "eu", "ag"}, m \in {Absent, "true"}, s \in {NoText, <<"p", "c">>}}

PageQueries ==
    {Query(Absent, Absent, NoText, so, p, l) :
        so \in {Absent, "createdAt"}, p \in {0, 2}, l \in {0, 1}}

SubjectOf(u) == IF u = "ag" THEN <<"v", "p", "n">> ELSE <<"P", "c">>

\* tickets are created, assigned to the agent and listed, one request at a time
NextQuery ==
    \/ \E tok \in UserIds :
          CreateTicket(tok, SubjectOf(tok), <<"n", "o">>, "c1", <<>>)
    \/ \E t \in Targets : UpdateTicket("ad", t, Absent, "ag", NoText, Absent)
    \/ \E tok \in UserIds, q \in FilterQueries \cup PageQueries, strict \in BOOLEAN :
          GetTickets(tok, q, strict)
    \/ \E q \in PageQueries : GetTickets(NoToken, q, TRUE)

SpecQuery == Init /\ [][NextQuery]_vars

\* ----------------------------------------- createCategory / deleteCategory
CategoryNames == {<<"H", "w">>, <<"h", "w">>, <<"N", "t">>}

ExistingCategories == {c \in CategoryIds : categories[c] # NoCategory}

\* { name: { $regex: new RegExp(`^${name}$`, 'i') } } for a name of plain characters
SameName(a, b) ==
    Len(a) = Len(b) /\ \A i \in 1..Len(a) : Lower(a[i]) = Lower(b[i])

FreshCategoryId == CHOOSE c \in CategoryIds : categories[c] = NoCategory

\* POST /api/categories (protect, authorize('admin'), createCategory)
CreateCategory(tok, name) ==
    LET actor == Protect(tok)
        stored == Trim(name)
        status == IF actor = NoUser THEN 401
                  ELSE IF ~Authorize(actor, {"admin"}) THEN 403
                  ELSE IF \E c \in ExistingCategories : SameName(categories[c].name, name) THEN 400
                  \* name is required, and unique by the index of the collection
                  ELSE IF stored = <<>> THEN 400
                  ELSE IF \E c \in ExistingCategories : categories[c].name = stored THEN 400
                  ELSE 201
    IN  /\ \E c \in CategoryIds : categories[c] = NoCategory
        /\ UNCHANGED <<users, tickets, reqs, base, transport>>
        /\ mail' = {}
        /\ trail' = NoTrail
        /\ categories' = IF status = 201
                         THEN [categories EXCEPT ![FreshCategoryId] = [name |-> stored]]
                         ELSE categories
        /\ response' = Resp("createCategory", tok, 0, status, [name |-> name])

DeleteCategoryCascade(tok, c) ==
    LET ok == Protect(tok) # NoUser /\ Authorize(Protect(tok), {"admin"})
                /\ c \in CategoryIds /\ categories[c] # NoCategory
    IN  /\ UNCHANGED <<users, reqs, base, transport>>
        /\ mail' = {}
        /\ trail' = NoTrail
        /\ categories' = IF ok THEN [categories EXCEPT ![c] = NoCategory] ELSE categories
        /\ tickets' = IF ok
                      THEN [t \in TicketIds |->
                              IF tickets[t] # NoTicket /\ tickets[t].category = c
                              THEN NoTicket ELSE tickets[t]]
                      ELSE tickets
        /\ response' = Resp("deleteCategory", tok, 0, IF ok THEN 200 ELSE 404, [category |-> c])

\* DELETE /api/categories/:id (protect, authorize('admin'), deleteCategory)
DeleteCategory(tok, c) ==
    LET actor == Protect(tok)
        status == IF actor = NoUser THEN 401
                  ELSE IF ~Authorize(actor, {"admin"}) THEN 403
                  \* the CastError of findById is answered 404 by errorHandler
                  ELSE IF c = BadId THEN 404
                  ELSE IF categories[c] = NoCategory THEN 404
                  ELSE 200
    IN  /\ UNCHANGED <<users, tickets, reqs, base, transport>>
        /\ mail' = {}
        /\ trail' = NoTrail
        /\ categories' = IF status = 200 THEN [categories EXCEPT ![c] = NoCategory]
                         ELSE categories
        /\ response' = Resp("deleteCategory", tok, 0, status, [category |-> c])

\* ---------------------------------- getCategories / getCategory / updateCategory
\* GET /api/categories: no middleware before it, the Authorization header
\* (tok) is never read
GetCategories(tok) == Reads("getCategories", tok, 0, 200, ExistingCategories)

\* GET /api/categories/:id, as public
GetCategory(tok, c) ==
    Reads("getCategory", tok, 0,
          IF c = BadId THEN 404 ELSE IF categories[c] = NoCategory THEN 404 ELSE 200,
          [category |-> c])

\* the categories findOne({ name: { $regex: new RegExp(`^${name}$`, 'i') } }) may return
NameMatches(name) == {d \in ExistingCategories : SameName(categories[d].name, name)}

(* PUT /api/categories/:id (protect, authorize('admin'), updateCategory);   *)
(* only the name of the body is followed.  findOne answers with one of the  *)
(* matching categories (found), and the request is refused when that one is *)
(* another category.  findByIdAndUpdate runs the setters and validators of  *)
(* the schema on the new name (trim, required) and the unique index refuses *)
(* a name another category holds (400).                                     *)
UpdateCategory(tok, c, name) ==
    \E found \in (IF NameMatches(name) = {} THEN {Absent} ELSE NameMatches(name)) :
    LET actor == Protect(tok)
        stored == Trim(name)
        status == IF actor = NoUser THEN 401
                  ELSE IF ~Authorize(actor, {"admin"}) THEN 403
                  ELSE IF c = BadId THEN 404
                  ELSE IF categories[c] = NoCategory THEN 404
                  ELSE IF Falsy(name) \/ name = categories[c].name THEN 200
                  ELSE IF found # Absent /\ found # c THEN 400
                  ELSE IF stored = <<>> THEN 400
                  ELSE IF \E d \in ExistingCategories \ {c} : categories[d].name = stored THEN 400
                  ELSE 200
    IN  /\ UNCHANGED <<users, tickets, reqs, base, transport>>
        /\ mail' = {}
        /\ trail' = NoTrail
        /\ categories' = IF status = 200 /\ ~Falsy(name)
                         THEN [categories EXCEPT ![c] = [name |-> stored]]
                         ELSE categories
        /\ response' = Resp("updateCategory", tok, 0, status, [category |-> c, name |-> name])

\* --------------------------------------------- specification: categories
\* tickets are created under categories that are created and deleted, one
\* request at a time
NextCategory ==
    \/ \E tok \in UserIds, category \in CategoryIds \cup {Absent, BadId} :
          CreateTicket(tok, <<"P", "c">>, <<"p", "c">>, category, <<>>)
    \/ \E tok \in {"eu", "ad"}, name \in CategoryNames : CreateCategory(tok, name)
    \/ \E tok \in {"ag", "ad"}, c \in CategoryIds \cup {BadId} : DeleteCategory(tok, c)

SpecCategory == Init /\ [][NextCategory]_vars

\* --------------------------------------------- specification: assignment
\* one ticket is created and updated while users are deleted and change
\* role and a second category appears, one request at a time
NextAssign ==
    \/ \E tok \in {"eu", "ad"} :
          /\ ExistingTickets = {}
          /\ CreateTicket(tok, <<"P", "c">>, <<"p", "c">>, "c1", <<>>)
    \/ CreateCategory("ad", <<"N", "t">>)
    \/ \E tok \in {"ag", "ad"}, t \in Targets, a \in UserIds \cup {Absent, UnknownId, BadId},
          other \in {<<Absent, Absent>>, <<"Closed", Absent>>, <<Absent, "c2">>} :
          UpdateTicket(tok, t, other[1], a, NoText, other[2])
    \/ DeleteUser("ad", "ag")
    \/ \E u \in {"eu", "ag"}, role \in {"end-user", "support-agent"} :
          UpdateUser("ad", u, role)

SpecAssign == Init /\ [][NextAssign]_vars

\* ------------------------------------------------- specification: status
\* one ticket is created, its status and assignee are updated and its
\* creator is deleted, one request at a time
NextStatus ==
    \/ \E tok \in UserIds :
          /\ ExistingTickets = {}
          /\ CreateTicket(tok, <<"P", "c">>, <<"p", "c">>, "c1", <<>>)
    \/ \E tok \in UserIds, t \in Targets, status \in Statuses \cup {Absent, "Pending"},
          a \in {Absent, "ag"} :
          UpdateTicket(tok, t, status, a, NoText, Absent)
    \/ DeleteUser("ad", "eu")

SpecStatus == Init /\ [][NextStatus]_vars

\* ------------------------------------------------- specification: fields
\* one ticket is created and its description and category are updated while
\* a second category appears, one request at a time
NextFields ==
    \/ \E tok \in UserIds :
          /\ ExistingTickets = {}
          /\ CreateTicket(tok, <<"P", "c">>, <<"p", "c">>, "c1", <<>>)
    \/ CreateCategory("ad", <<"N", "t">>)
    \/ \E tok \in UserIds, t \in Targets, description \in {NoText, <<"n", "w">>, <<"p", "c">>},
          category \in CategoryIds \cup {Absent} :
          UpdateTicket(tok, t, Absent, Absent, description, category)

SpecFields == Init /\ [][NextFields]_vars

\* ---------------------------------------- specification: all operations
\* one ticket is created, updated, commented and voted on while categories
\* and users come, change and go, one request at a time
NextFrame ==
    \/ /\ ExistingTickets = {}
       /\ CreateTicket("eu", <<"P", "c">>, <<"p", "c">>, "c1", <<"/uploads/f">>)
    \/ \E tok \in UserIds, t \in Targets, status \in {Absent, "Closed"}, a \in {Absent, "ag"} :
          UpdateTicket(tok, t, status, a, <<"n", "w">>, Absent)
    \/ \E t \in ExistingTickets : AddComment("eu", t, <<"o", "k">>)
    \/ \E t \in ExistingTickets : UpvoteTicket("ad", t)
    \/ \E t \in ExistingTickets : DownvoteTicket("ad", t)
    \/ CreateCategory("ad", <<"N", "t">>)
    \/ DeleteCategory("ad", "c1")
    \/ UpdateUser("ad", "eu", "support-agent")
    \/ DeleteUser("ad", "ag")

SpecFrame == Init /\ [][NextFrame]_vars

\* --------------------------------------------------- specification: mail
\* the SMTP transport starts and stops accepting mail, between requests
TransportFlips ==
    /\ transport' = ~transport
    /\ response' = Resp("none", NoToken, 0, 0, Null)
    /\ mail' = {}
    /\ trail' = NoTrail
    /\ UNCHANGED <<users, categories, tickets, reqs, base>>

\* one ticket is created, updated and commented on while the transport
\* comes and goes, one request at a time
NextMail ==
    \/ \E tok \in {"eu", "ag"} :
          /\ ExistingTickets = {}
          /\ CreateTicket(tok, <<"P", "c">>, <<"p", "c">>, "c1", <<>>)
    \/ \E tok \in UserIds, t \in Targets, status \in {Absent, "Closed", "Open"}, a \in {Absent, "ag"} :
          UpdateTicket(tok, t, status, a, NoText, Absent)
    \/ \E tok \in UserIds, t \in Targets : AddComment(tok, t, <<"o", "k">>)
    \/ TransportFlips

SpecMail == Init /\ [][NextMail]_vars

\* -------------------------------------------------- specification: roles
\* accounts are registered, created, changed and deleted, one request at a time
NextRole ==
    \/ \E tok \in {NoToken, "eu"}, u \in {"nu", "eu"}, role \in Roles \cup {Absent, "root"} :
          Register(tok, u, role)
    \/ \E tok \in {"ag", "ad", NoToken}, u \in {"nu", "ag"},
          role \in {Absent, "support-agent", "admin", "root"} :
          CreateUser(tok, u, role)
    \/ \E tok \in {"eu", "ad", "nu"}, u \in AccountIds, role \in {Absent, "end-user", "admin"} :
          UpdateUser(tok, u, role)
    \/ \E tok \in {"ag", "ad"}, u \in UserIds : DeleteUser(tok, u)

SpecRole == Init /\ [][NextRole]_vars

\* ----------------------------------------- specification: authentication
AuthTokens == UserIds \cup {NoToken, BadToken, ExpiredToken}

\* a ticket is created and assigned and users are deleted; every protected
\* route is then asked with no token, with a token that fails verification and
\* with the token of a deleted user
NextAuth ==
    \/ /\ ExistingTickets = {}
       /\ CreateTicket("eu", <<"P", "c">>, <<"p", "c">>, "c1", <<>>)
    \/ \E t \in ExistingTickets : UpdateTicket("ag", t, "Closed", "ag", NoText, Absent)
    \/ \E u \in {"eu", "ag"} : DeleteUser("ad", u)
    \/ \E tok \in AuthTokens : ~Authenticated(tok) /\
          CreateTicket(tok, <<"P", "c">>, <<"p", "c">>, "c1", <<>>)
    \/ \E tok \in AuthTokens, t \in Targets : ~Authenticated(tok) /\
          UpdateTicket(tok, t, "Open", Absent, <<"n", "w">>, Absent)
    \/ \E tok \in AuthTokens, t \in Targets : ~Authenticated(tok) /\ GetTicket(tok, t)
    \/ \E tok \in AuthTokens : ~Authenticated(tok) /\
          GetTickets(tok, Query(Absent, Absent, NoText, Absent, 0, 0), TRUE)
    \/ \E tok \in AuthTokens, t \in Targets : ~Authenticated(tok) /\ AddComment(tok, t, <<"o", "k">>)
    \/ \E tok \in AuthTokens, t \in Targets : ~Authenticated(tok) /\ UpvoteTicket(tok, t)
    \/ \E tok \in AuthTokens, t \in Targets : ~Authenticated(tok) /\ DownvoteTicket(tok, t)
    \/ \E tok \in AuthTokens, t \in Targets : ~Authenticated(tok) /\ DeleteTicket(tok, t)
    \/ \E tok \in AuthTokens : ~Authenticated(tok) /\ GetUsers(tok)
    \/ \E tok \in AuthTokens : ~Authenticated(tok) /\ GetUser(tok, "ad")
    \/ \E tok \in AuthTokens : ~Authenticated(tok) /\ GetMe(tok)
    \/ \E tok \in AuthTokens : ~Authenticated(tok) /\ CreateUser(tok, "nu", "admin")
    \/ \E tok \in AuthTokens : ~Authenticated(tok) /\ UpdateUser(tok, "ad", "end-user")
    \/ \E tok \in AuthTokens : ~Authenticated(tok) /\ DeleteUser(tok, "ad")
    \/ \E tok \in AuthTokens : ~Authenticated(tok) /\ CreateCategory(tok, <<"N", "t">>)
    \/ \E tok \in AuthTokens : ~Authenticated(tok) /\ UpdateCategory(tok, "c1", <<"N", "t">>)
    \/ \E tok \in AuthTokens : ~Authenticated(tok) /\ DeleteCategory(tok, "c1")

SpecAuth == Init /\ [][NextAuth]_vars

\* ------------------------------------------ specification: administration
\* the routes kept to admins are asked by users of the three roles, and the
\* categories are read by anyone, one request at a time
NextAdmin ==
    \/ \E tok \in UserIds :
          /\ ExistingTickets = {}
          /\ CreateTicket(tok, <<"P", "c">>, <<"p", "c">>, "c1", <<>>)
    \/ \E tok \in UserIds, t \in Targets : DeleteTicket(tok, t)
    \/ \E tok \in UserIds : CreateCategory(tok, <<"N", "t">>)
    \/ \E tok \in UserIds, c \in CategoryIds : UpdateCategory(tok, c, <<"v", "p", "n">>)
    \/ \E tok \in UserIds, c \in CategoryIds : DeleteCategory(tok, c)
    \/ \E tok \in UserIds : GetUsers(tok)
    \/ \E tok \in UserIds, u \in {"eu", "nu"} : GetUser(tok, u)
    \/ \E tok \in UserIds, role \in {Absent, "admin"} : CreateUser(tok, "nu", role)
    \/ \E tok \in UserIds : DeleteUser(tok, "nu")
    \/ \E tok \in UserIds \cup {NoToken} : GetCategories(tok)
    \/ \E tok \in UserIds \cup {NoToken}, c \in CategoryIds : GetCategory(tok, c)

SpecAdmin == Init /\ [][NextAdmin]_vars

\* ------------------------------------------ specification: category names
\* names as a form sends them: with and without blanks around them
TypedNames == CategoryNames \cup {<<SP, "h", "w">>, <<"n", "t", SP>>, <<SP>>}

\* an admin creates, renames and deletes categories, one request at a time
NextNames ==
    \/ \E name \in TypedNames : CreateCategory("ad", name)
    \/ \E c \in CategoryIds, name \in TypedNames \cup {NoText} : UpdateCategory("ad", c, name)
    \/ \E c \in CategoryIds : DeleteCategory("ad", c)

SpecNames == Init /\ [][NextNames]_vars

\* ------------------------------------------- specification: role changes
\* roles are changed while the users, each with the token issued to them at
\* the start, go on asking the routes that depend on the role
NextGate ==
    \/ \E tok \in UserIds :
          /\ ExistingTickets = {}
          /\ CreateTicket(tok, <<"P", "c">>, <<"p", "c">>, "c1", <<>>)
    \/ \E tok \in UserIds, u \in UserIds, role \in Roles : UpdateUser(tok, u, role)
    \/ \E tok \in UserIds : CreateCategory(tok, <<"N", "t">>)
    \/ \E tok \in UserIds : DeleteCategory(tok, "c2")
    \/ \E tok \in UserIds : GetUsers(tok)
    \/ \E tok \in UserIds : GetTickets(tok, Query(Absent, Absent, NoText, Absent, 0, 0), TRUE)
    \/ \E tok \in UserIds, t \in Targets, status \in {"Open", "Closed"} :
          UpdateTicket(tok, t, status, Absent, NoText, Absent)

SpecGate == Init /\ [][NextGate]_vars

\* ============================================================ properties

\* ---- voting (SpecVote)
Voted(tk, u) == [up |-> Includes(tk.upvotes, u), down |-> Includes(tk.downvotes, u)]

\* C1: a user who is not the creator of a ticket is never in both its upvotes
\* and its downvotes, after any sequence of complete upvote/downvote requests.
C1_NeverBothVotes ==
    \A t \in ExistingTickets, u \in UserIds :
        u # tickets[t].createdBy =>
            ~(Includes(tickets[t].upvotes, u) /\ Includes(tickets[t].downvotes, u))

\* a downvote has just replaced the upvote of the same user
C1_Witness ==
    /\ response.op = "downvote" /\ response.status = 200
    /\ response.tok \in trail[1].pre.up
    /\ Voted(tickets[response.tid], response.tok) = [up |-> FALSE, down |-> TRUE]

\* the last two requests were successful upvotes of one user on one ticket
TwoUpvotes ==
    /\ trail[1].op = "upvote" /\ trail[2].op = "upvote"
    /\ trail[1].tok = trail[2].tok /\ trail[1].tid = trail[2].tid

\* C2 as claimed: two consecutive upvotes of one user restore the votes of the
\* ticket, whatever the vote of the user was before.
C2_TwoUpvotesRestore ==
    TwoUpvotes => VotesOf(tickets[trail[1].tid]) = trail[2].pre

\* C2 as amended: two consecutive upvotes of one user restore the votes of the
\* ticket except that a downvote the user had before is gone.
C2_TwoUpvotesRestoreButDownvote ==
    TwoUpvotes =>
        VotesOf(tickets[trail[1].tid]) =
            [up |-> trail[2].pre.up, down |-> trail[2].pre.down \ {trail[1].tok}]

\* two upvotes in a row by a user whose upvote was there, beside another vote
C2_Witness ==
    /\ TwoUpvotes
    /\ trail[1].tok \in trail[2].pre.up
    /\ trail[2].pre.down # {}

\* C3: a vote request by the creator of the ticket is rejected (400), whatever
\* the role of the creator, and changes no ticket.
C3_OwnVoteRejected ==
    [][(/\ response'.op \in {"upvote", "downvote"}
        /\ Exists(response'.tid)
        /\ Protect(response'.tok) = tickets[response'.tid].createdBy)
       => (response'.status = 400 /\ tickets' = tickets)]_vars

\* an admin who created a ticket that has votes was refused a vote on it
C3_Witness ==
    /\ response.op \in {"upvote", "downvote"} /\ response.status = 400
    /\ Exists(response.tid)
    /\ tickets[response.tid].createdBy = response.tok
    /\ users[response.tok] = "admin"
    /\ tickets[response.tid].upvotes # <<>>

\* ---- viewing (SpecView)
\* creator, current assignee or admin
Permitted(tk, u) == tk.createdBy = u \/ tk.assignedTo = u \/ users[u] = "admin"

\* C7: getTicket on an existing ticket answers 200 with the ticket exactly to
\* its creator, its assignee and admins, 403 to every other authenticated
\* user and 401 to a caller that is not authenticated.
C7_ViewIffPermitted ==
    (response.op = "getTicket" /\ Exists(response.tid)) =>
        LET tk == tickets[response.tid] IN
        IF ~Authenticated(response.tok) THEN response.status = 401
        ELSE IF Permitted(tk, response.tok)
             THEN response.status = 200 /\ response.data = tk
             ELSE response.status = 403

\* ---- commenting (SpecComment)
\* missing, empty or made of blanks only
IsBlankInput(text) == text = NoText \/ \A i \in DOMAIN text : text[i] = SP

AddCommentStep == response'.op = "addComment" /\ Authenticated(response'.tok)

\* C8: addComment with a text that is not blank on an existing ticket succeeds
\* exactly for the creator, the assignee and admins, appending one comment
\* {text, commentedBy} at the end and answering the whole list; anyone else
\* gets 403 and the comments stay as they were.
C8_CommentIffPermitted ==
    [][(/\ AddCommentStep
        /\ Exists(response'.tid)
        /\ ~IsBlankInput(response'.data.text))
       => LET t == response'.tid
              c == [text |-> response'.data.text, commentedBy |-> response'.tok]
          IN  IF Permitted(tickets[t], response'.tok)
              THEN /\ response'.status = 200
                   /\ tickets'[t].comments = Append(tickets[t].comments, c)
                   /\ response'.data.comments = tickets'[t].comments
              ELSE /\ response'.status = 403
                   /\ tickets' = tickets]_vars

\* C9: a support agent may comment on any ticket, whoever created it and
\* whoever it is assigned to.
C9_AgentCommentsAnywhere ==
    (/\ response.op = "addComment"
     /\ Authenticated(response.tok)
     /\ users[response.tok] = "support-agent"
     /\ Exists(response.tid)
     /\ ~IsBlankInput(response.data.text))
    => response.status = 200

\* C10: addComment with a missing, empty or blank text answers 400 whoever the
\* actor and whatever the ticket, changes no ticket and sends no mail.
C10_BlankCommentRejected ==
    [][(AddCommentStep /\ IsBlankInput(response'.data.text))
       => (response'.status = 400 /\ tickets' = tickets /\ mail' = {})]_vars

\* an admin sent blanks to a ticket that has a comment and an assignee
C10_Witness ==
    /\ response.op = "addComment" /\ response.status = 400
    /\ response.data.text = <<SP, SP>>
    /\ users[response.tok] = "admin"
    /\ Exists(response.tid)
    /\ tickets[response.tid].comments # <<>>
    /\ tickets[response.tid].assignedTo # Null

\* ---- listing (SpecQuery)
Listed == Range(response.data.data)

OwnTickets(u) == {t \in ExistingTickets : tickets[t].createdBy = u}

\* C5: whatever the query, every ticket getTickets returns to an end-user was
\* created by that user, and the total counts such tickets only.
C5_EndUserSeesOwnOnly ==
    (response.op = "getTickets" /\ response.status = 200
        /\ users[response.tok] = "end-user") =>
        /\ Listed \subseteq OwnTickets(response.tok)
        /\ Len(response.data.data) <= response.data.total
        /\ response.data.total <= Cardinality(OwnTickets(response.tok))

\* an end-user asked for the tickets created by the agent, who has one, and
\* got a ticket back
C5_Witness ==
    /\ response.op = "getTickets" /\ response.status = 200
    /\ users[response.tok] = "end-user"
    /\ response.data.q.createdBy = "ag"
    /\ OwnTickets("ag") # {}
    /\ Listed # {}

\* C6: with my_tickets=true a support agent gets only tickets assigned to
\* them; without it the listing of the agent is not narrowed by assignee; for
\* an admin the flag narrows nothing.
C6_MyTicketsFlag ==
    (response.op = "getTickets" /\ response.status = 200) =>
        LET q == response.data.q
            plain == [q EXCEPT !.my_tickets = Absent]
            unfiltered == q.createdBy = Absent /\ q.search = NoText
        IN
        /\ (users[response.tok] = "support-agent" /\ q.my_tickets = "true") =>
              \A t \in Listed : tickets[t].assignedTo = response.tok
        /\ (users[response.tok] = "support-agent" /\ q.my_tickets = Absent /\ unfiltered) =>
              response.data.total = Cardinality(ExistingTickets)
        /\ (users[response.tok] = "admin" /\ q.my_tickets = "true") =>
              /\ response.data.total = ListTickets(response.tok, plain, response.data.strict).total
              /\ response.data.data = ListTickets(response.tok, plain, response.data.strict).data

\* the ticket satisfies the role scope and the search of the request
InScope(tk, u, q) ==
    /\ users[u] = "end-user" => tk.createdBy = u
    /\ (users[u] = "support-agent" /\ q.my_tickets = "true") => tk.assignedTo = u
    /\ q.search # NoText =>
          RegexMatch(q.search, tk.subject) \/ RegexMatch(q.search, tk.description)

\* C25 as claimed: every key of the query but select, sort, page, limit and
\* search (createdBy and my_tickets here) is a field equality that each
\* returned ticket satisfies, together with the role scope and the search;
\* no ticket has a field my_tickets.
C25_EveryKeyFilters ==
    (response.op = "getTickets" /\ response.status = 200) =>
        LET q == response.data.q IN
        \A t \in Listed :
            /\ q.createdBy # Absent => tickets[t].createdBy = q.createdBy
            /\ q.my_tickets = Absent
            /\ InScope(tickets[t], response.tok, q)

\* the tickets the request matches when the role scope replaces the
\* condition of the caller on the field it sets, and my_tickets is dropped
\* under strictQuery and a condition no ticket satisfies otherwise
Selected(u, q, strict) ==
    {t \in ExistingTickets :
        /\ (q.createdBy # Absent /\ users[u] # "end-user") =>
               tickets[t].createdBy = q.createdBy
        /\ q.my_tickets # Absent => strict
        /\ InScope(tickets[t], u, q)}

\* C25 as amended: the tickets matched are those that satisfy the role
\* scope, the search and every other key as a field equality, except that
\* the createdBy of an end-user's query is replaced by the scope and that
\* my_tickets is dropped where strictQuery is on.
C25_KeysFilterWithinScope ==
    (response.op = "getTickets" /\ response.status = 200) =>
        LET S == Selected(response.tok, response.data.q, response.data.strict) IN
        /\ Listed \subseteq S
        /\ response.data.total = Cardinality(S)

\* an admin asked for the tickets created by the end-user while the agent
\* has one too, and got some but not all
C25_Witness ==
    /\ response.op = "getTickets" /\ response.status = 200
    /\ users[response.tok] = "admin"
    /\ response.data.q.createdBy = "eu"
    /\ Listed # {}
    /\ OwnTickets("ag") # {}

\* ---- overlapping requests (SpecConc)
\* the tickets after the request r, run alone from load to save on tks
After(tks, r) ==
    IF RequestStatus(r, tks[r.tid]) = 200
    THEN [tks EXCEPT ![r.tid] = Saved(@, RequestDoc(r, @))]
    ELSE tks

RECURSIVE Serial(_, _)
Serial(tks, order) ==
    IF order = <<>> THEN tks ELSE Serial(After(tks, reqs[Head(order)].req), Tail(order))

Orders == {o \in [1..MaxReqs -> 1..MaxReqs] : \A i, j \in 1..MaxReqs : o[i] = o[j] => i = j}

SameContent(a, b) ==
    \A t \in TicketIds :
        \/ a[t] = NoTicket /\ b[t] = NoTicket
        \/ /\ a[t] # NoTicket /\ b[t] # NoTicket
           /\ VotesOf(a[t]) = VotesOf(b[t])
           /\ a[t].comments = b[t].comments

AllDone == \A i \in 1..MaxReqs : reqs[i].phase = "done"

\* C4: however the loads and saves of votes and comments of different callers
\* on one ticket interleave, the votes and comments at the end are those of
\* running the requests one after another in some order.
C4_NoLostUpdate ==
    AllDone => \E o \in Orders : SameContent(tickets, Serial(base, o))

\* ---- overlapping requests of one caller (SpecSame)
NoDuplicate(s) == \A i, j \in DOMAIN s : s[i] = s[j] => i = j

\* C28: however the vote requests of one user on a ticket of another
\* overlap, the user is never in both the upvotes and the downvotes of the
\* ticket and never more than once in either.
C28_OverlappingVotesCountOnce ==
    \A t \in ExistingTickets :
        /\ \A u \in UserIds :
              u # tickets[t].createdBy =>
                  ~(Includes(tickets[t].upvotes, u) /\ Includes(tickets[t].downvotes, u))
        /\ NoDuplicate(tickets[t].upvotes)
        /\ NoDuplicate(tickets[t].downvotes)

\* ---- categories (SpecCategory)
\* the category id of a request names no category
NoSuchCategory(c) == c = BadId \/ (c \in CategoryIds /\ categories[c] = NoCategory)

\* C11: createTicket with a category id that names no existing category
\* answers 400 and leaves the tickets as they were; a ticket is only ever
\* created under a category that exists.
C11_UnknownCategoryRejected ==
    [][(response'.op = "createTicket" /\ Authenticated(response'.tok)) =>
          /\ NoSuchCategory(response'.data.category) =>
                (response'.status = 400 /\ tickets' = tickets)
          /\ tickets' # tickets =>
                /\ response'.data.category \in ExistingCategories
                /\ tickets'[response'.tid].category = response'.data.category]_vars

\* C20: deleteCategory removes the category and nothing else: every ticket,
\* those of the category included, stays as it was.
C20_DeleteCategoryKeepsTickets ==
    [][(response'.op = "deleteCategory" /\ response'.status = 200) =>
          /\ tickets' = tickets
          /\ categories' = [categories EXCEPT ![response'.data.category] = NoCategory]]_vars

\* a category was deleted under a ticket that still names it
C20_Witness ==
    /\ response.op = "deleteCategory" /\ response.status = 200
    /\ categories[response.data.category] = NoCategory
    /\ \E t \in ExistingTickets : tickets[t].category = response.data.category

\* ---- assignment (SpecAssign)
\* the id is the well-formed id of no user, or of an end-user
NoAgent(a) ==
    a = UnknownId \/ (a \in AccountIds /\ users[a] \in {NoUser, "end-user"})

\* C12: updateTicket by an agent or admin whose assignedTo names no user or
\* an end-user answers 400 and leaves the ticket as it was, whatever else
\* the request carries.
C12_BadAssigneeRejected ==
    [][(/\ response'.op = "updateTicket"
        /\ Authenticated(response'.tok)
        /\ IsStaff(response'.tok)
        /\ Exists(response'.tid)
        /\ NoAgent(response'.data.assignedTo))
       => (response'.status = 400 /\ tickets' = tickets)]_vars

\* C13: the assignee of every ticket that has one is an existing user whose
\* role is support-agent or admin.
C13_AssigneeIsStaff ==
    \A t \in ExistingTickets :
        tickets[t].assignedTo # Null =>
            /\ tickets[t].assignedTo \in AccountIds
            /\ users[tickets[t].assignedTo] \in {"support-agent", "admin"}

\* ---- status (SpecStatus)
UpdateStep ==
    /\ response'.op = "updateTicket"
    /\ Authenticated(response'.tok)
    /\ Exists(response'.tid)

\* what the request carries beside the status would pass on its own
ValidOthers(body, tk) ==
    /\ \/ body.assignedTo \in {Absent, tk.assignedTo}
       \/ (body.assignedTo \in AccountIds /\ IsStaff(body.assignedTo))
    /\ \/ body.category \in {Absent, tk.category}
       \/ body.category \in ExistingCategories

\* C14: an update by an agent or admin that supplies one of the four statuses
\* other than the current one leaves the ticket in that status, whatever
\* the current one is, and no ticket ever holds a status outside the four.
C14_StatusFreelySet ==
    [][/\ (/\ UpdateStep
            /\ IsStaff(response'.tok)
            /\ response'.data.status \in Statuses
            /\ response'.data.status # tickets[response'.tid].status
            /\ ValidOthers(response'.data, tickets[response'.tid]))
           => tickets'[response'.tid].status = response'.data.status
       /\ \A t \in TicketIds :
              tickets'[t] # NoTicket => tickets'[t].status \in Statuses]_vars

\* an agent reopened a closed ticket in a request that named a status only
C14_Witness ==
    /\ response.op = "updateTicket" /\ response.status = 200
    /\ users[response.tok] = "support-agent"
    /\ response.data.status = "Open" /\ response.data.assignedTo = Absent
    /\ tickets[response.tid].status = "Open"
    /\ mail # {}

\* the request names nothing but what the ticket already holds
NoChange(body, tk) ==
    /\ body.status \in {Absent, tk.status}
    /\ body.assignedTo \in {Absent, tk.assignedTo}
    /\ body.description \in {NoText, tk.description}
    /\ body.category \in {Absent, tk.category}

\* C17: an update by an agent, an admin or the creator that changes no field
\* answers 200, leaves the ticket as it was and sends no mail.
C17_NoOpUpdateSucceeds ==
    [][(/\ UpdateStep
        /\ IsStaff(response'.tok) \/ tickets[response'.tid].createdBy = response'.tok
        /\ NoChange(response'.data, tickets[response'.tid]))
       => (response'.status = 200 /\ tickets' = tickets /\ mail' = {})]_vars

\* C18: an update that changes the status sends one mail, to the creator and
\* to the assignee the ticket has after the update; an update that changes
\* nothing sends none.
C18_StatusChangeNotifies ==
    [][UpdateStep =>
          LET old == tickets[response'.tid]
              new == tickets'[response'.tid]
          IN  /\ new.status # old.status =>
                    mail' = {new.createdBy} \cup ({new.assignedTo} \ {Null})
              /\ new = old => mail' = {}]_vars

\* ---- fields (SpecFields)
\* C16: an update by the creator of the ticket, whatever the role, that
\* carries a new description or the id of another existing category leaves
\* the ticket with that value.
C16_CreatorEditsFields ==
    [][(/\ UpdateStep
        /\ tickets[response'.tid].createdBy = response'.tok
        /\ response'.data.category \in ExistingCategories \cup {Absent}) =>
          /\ ~Falsy(response'.data.description) =>
                tickets'[response'.tid].description = response'.data.description
          /\ response'.data.category \in ExistingCategories =>
                tickets'[response'.tid].category = response'.data.category]_vars

\* ---- all operations (SpecFrame)
\* C15: the status and the assignee of a ticket change only in an
\* updateTicket request of a user who is a support-agent or admin: not in a
\* request of an end-user, the creator included, and not in a comment, a
\* vote, a category operation or a user operation.
C15_OnlyStaffUpdateSetsStatus ==
    [][\A t \in TicketIds :
          (/\ tickets[t] # NoTicket /\ tickets'[t] # NoTicket
           /\ \/ tickets'[t].status # tickets[t].status
              \/ tickets'[t].assignedTo # tickets[t].assignedTo)
          => /\ response'.op = "updateTicket" /\ response'.tid = t
             /\ Authenticated(response'.tok)
             /\ IsStaff(response'.tok)]_vars

\* the end-user who created the ticket asked for another status and a new
\* description: the description was stored, the status was not
C15_Witness ==
    /\ response.op = "updateTicket" /\ response.status = 200
    /\ users[response.tok] = "end-user"
    /\ tickets[response.tid].createdBy = response.tok
    /\ response.data.status = "Closed"
    /\ tickets[response.tid].status = "Open"
    /\ tickets[response.tid].description = response.data.description

IsPrefix(a, b) == Len(a) <= Len(b) /\ SubSeq(b, 1, Len(a)) = a

\* C26: in every step that keeps a ticket, its comments before the step are
\* a prefix of its comments after it: addComment, updateTicket, the votes,
\* the category and the user operations edit, remove and reorder none.
C26_CommentsAppendOnly ==
    [][\A t \in TicketIds :
          (tickets[t] # NoTicket /\ tickets'[t] # NoTicket)
          => IsPrefix(tickets[t].comments, tickets'[t].comments)]_vars

\* a ticket that holds two comments was then updated and voted on
C26_Witness ==
    /\ response.op \in {"upvote", "downvote"} /\ response.status = 200
    /\ Len(tickets[response.tid].comments) = 2
    /\ tickets[response.tid].status = "Closed"
    /\ tickets[response.tid].description = <<"n", "w">>

\* C27: a ticket appears in a createTicket request only, created by the
\* acting user, Open, with no assignee, no comment and no vote; from then on
\* no request changes its createdBy or its attachments.
C27_CreatorAndAttachmentsFixed ==
    [][\A t \in TicketIds :
          /\ (tickets[t] # NoTicket /\ tickets'[t] # NoTicket)
             => /\ tickets'[t].createdBy = tickets[t].createdBy
                /\ tickets'[t].attachments = tickets[t].attachments
          /\ (tickets[t] = NoTicket /\ tickets'[t] # NoTicket)
             => /\ response'.op = "createTicket" /\ response'.tid = t
                /\ tickets'[t].createdBy = response'.tok
                /\ tickets'[t].status = "Open"
                /\ tickets'[t].assignedTo = Null
                /\ tickets'[t].comments = <<>>
                /\ tickets'[t].upvotes = <<>> /\ tickets'[t].downvotes = <<>>]_vars

\* a ticket created with an attachment was updated by its creator and by an
\* agent, commented and voted on, and still has its creator and attachment
C27_Witness ==
    \E t \in ExistingTickets :
        /\ tickets[t].createdBy = "eu"
        /\ tickets[t].attachments = <<"/uploads/f">>
        /\ tickets[t].description = <<"n", "w">>
        /\ tickets[t].assignedTo = "ag"
        /\ tickets[t].comments # <<>>
        /\ tickets[t].upvotes # <<>>

\* ---- mail (SpecMail)
\* the request changed the tickets as its operation does on success
Persisted ==
    LET t == response'.tid IN
    CASE response'.op = "createTicket" -> tickets[t] = NoTicket /\ tickets'[t] # NoTicket
      [] response'.op = "updateTicket" -> tickets'[t] # tickets[t]
      [] response'.op = "addComment" ->
            Len(tickets'[t].comments) = Len(tickets[t].comments) + 1
      [] OTHER -> FALSE

\* C19: when sendEmail is called while the transport refuses mail, the
\* creation, update or comment is persisted all the same and the request is
\* answered with success.
C19_MailFailureSwallowed ==
    [][(/\ response'.op \in {"createTicket", "updateTicket", "addComment"}
        /\ mail' # {}
        /\ ~transport)
       => (response'.status \in {200, 201} /\ Persisted)]_vars

\* a comment was added and answered 200 while the mail to the creator and
\* the assignee was refused
C19_Witness ==
    /\ ~transport
    /\ response.op = "addComment" /\ response.status = 200
    /\ Cardinality(mail) = 2
    /\ tickets[response.tid].comments # <<>>

\* ---- roles (SpecRole)
\* C21: an account gets the role support-agent or admin only in a createUser
\* or updateUser request of an authenticated admin: no request of another
\* caller, or of no authenticated caller, creates such an account or turns
\* one into it.
C21_OnlyAdminGrantsRole ==
    [][\A u \in AccountIds :
          (users'[u] \in {"support-agent", "admin"} /\ users'[u] # users[u])
          => /\ response'.op \in {"createUser", "updateUser"}
             /\ Authenticated(response'.tok)
             /\ users[response'.tok] = "admin"]_vars

\* ---- authentication (SpecAuth)
\* the operations of the routes behind protect
ProtectedOps ==
    {"createTicket", "updateTicket", "getTicket", "getTickets", "addComment", "upvote",
     "downvote", "deleteTicket", "getUsers", "getUser", "getMe", "createUser", "updateUser",
     "deleteUser", "createCategory", "updateCategory", "deleteCategory"}

\* C22: a request to a protected route whose token is missing, fails
\* verification or names a user that is gone (deleted, for one) is answered
\* 401 and leaves users, categories and tickets as they were.
C22_UnauthenticatedRejected ==
    [][(response'.op \in ProtectedOps /\ ~Authenticated(response'.tok))
       => /\ response'.status = 401
          /\ users' = users /\ categories' = categories /\ tickets' = tickets]_vars

\* the agent a ticket is assigned to was deleted and then asked, with the
\* token issued before, to update that ticket
C22_Witness ==
    /\ response.op = "updateTicket" /\ response.status = 401
    /\ response.tok = "ag" /\ users["ag"] = NoUser
    /\ Exists(response.tid) /\ tickets[response.tid].assignedTo = "ag"

\* ---- administration (SpecAdmin)
\* the operations of the routes behind authorize('admin')
AdminOnlyOps ==
    {"createCategory", "updateCategory", "deleteCategory", "getUsers", "getUser",
     "createUser", "deleteUser", "deleteTicket"}

\* C23: a request to create, update or delete a category, to list, get,
\* create or delete users or to delete a ticket is answered 403 and changes
\* nothing when the actor is an end-user or a support-agent, and changes
\* something only when the actor is an admin; the categories are read with
\* or without a token.
C23_AdminOnlyRoutes ==
    [][/\ (/\ response'.op \in AdminOnlyOps
            /\ Authenticated(response'.tok)
            /\ users[response'.tok] \in {"end-user", "support-agent"})
           => /\ response'.status = 403
              /\ users' = users /\ categories' = categories /\ tickets' = tickets
       /\ (/\ response'.op \in AdminOnlyOps
            /\ (users' # users \/ categories' # categories \/ tickets' # tickets))
           => (Authenticated(response'.tok) /\ users[response'.tok] = "admin")
       /\ response'.op = "getCategories"
           => (response'.status = 200 /\ response'.data = ExistingCategories)
       /\ (response'.op = "getCategory" /\ response'.data.category \in ExistingCategories)
           => response'.status = 200]_vars

\* a support-agent asked to delete a ticket that exists and was refused
C23_Witness ==
    /\ response.op = "deleteTicket" /\ response.status = 403
    /\ users[response.tok] = "support-agent"
    /\ Exists(response.tid)

\* ---- category names (SpecNames)
\* C24: no two categories have names that are equal when the case of the
\* letters is ignored, after any sequence of createCategory and
\* updateCategory requests.
C24_NamesUniqueIgnoringCase ==
    \A c, d \in ExistingCategories :
        c # d => ~SameName(categories[c].name, categories[d].name)

\* ---- listing and viewing (SpecQuery)
\* C29: every ticket getTickets returns to a user is one getTicket returns to
\* that user: the user is its creator, its assignee or an admin.
C29_ListedIsViewable ==
    (response.op = "getTickets" /\ response.status = 200) =>
        \A t \in Listed :
            /\ Permitted(tickets[t], response.tok)
            /\ ~BrokenCreator(tickets[t]) /\ CanView(tickets[t], response.tok)

\* ---- role changes (SpecGate)
\* C30: every request is gated by the role its user has in the collection
\* when it is made, whatever the role was when the token was issued: an
\* admin-only route passes the gate exactly for a user who is admin now,
\* getTickets shows an end-user their own tickets and anyone else all of
\* them, and updateTicket stores a new status exactly for a user who is
\* support-agent or admin now.
C30_CurrentRoleGates ==
    [][Authenticated(response'.tok) =>
          /\ response'.op \in AdminOnlyOps =>
                (response'.status # 403 <=> users[response'.tok] = "admin")
          /\ (response'.op = "getTickets" /\ response'.status = 200) =>
                response'.data.total =
                    IF users[response'.tok] = "end-user"
                    THEN Cardinality(OwnTickets(response'.tok))
                    ELSE Cardinality(ExistingTickets)
          /\ (/\ response'.op = "updateTicket"
              /\ Exists(response'.tid)
              /\ response'.data.status # tickets[response'.tid].status)
             => (tickets'[response'.tid].status = response'.data.status
                    <=> IsStaff(response'.tok))]_vars

\* the user who began as admin was made an end-user and, with the same
\* token, was then refused the deletion of a category that exists
C30_Witness ==
    /\ response.op = "deleteCategory" /\ response.status = 403
    /\ response.tok = "ad" /\ users["ad"] = "end-user"
    /\ categories[response.data.category] # NoCategory

====
